---- MODULE Spec2Model ----
(***************************************************************************)
(* A model of the hoarder relational schema (packages/db/schema.ts) as the *)
(* storage engine enforces it -- primary keys, unique constraints, foreign *)
(* keys with their ON DELETE policies -- and of the browser extension's    *)
(* SavePage popup (packages/browser-extension/src/SavePage.tsx).           *)
(*                                                                         *)
(* Every table is a set of rows (records).  A statement the engine rejects *)
(* is an action that is not enabled; a statement it accepts is one step.   *)
(* Foreign keys are modelled as enforced, which is what the schema         *)
(* declares with references(..., { onDelete }).  The tables                *)
(* verificationToken and config hold no key of or into another table and   *)
(* are left out; of a row, the columns that carry a key, a unique          *)
(* constraint or an enum are kept.                                         *)
(***************************************************************************)
EXTENDS Naturals, FiniteSets, Sequences, TLC

\* ------------------------------------------------------------------ bounds
\* The identifier universes: createId() draws opaque strings; the model draws
\* them from these finite sets.
UserIds     == {"u1", "u2"}
BookmarkIds == {"b1", "b2"}
TagIds      == {"t1", "t2"}
ListIds     == {"l1", "l2", "l3"}
AssetIds    == {"a1", "a2"}
FeedIds     == {"f1", "f2"}
ImportIds   == {"i1", "i2"}
AccountKeys == {"k1"}
SessionTokens == {"s1"}
ApiKeyIds   == {"ak1"}
PromptIds   == {"p1"}
TagNames    == {"n1", "n2"}
EntryIds    == {"e1", "e2"}
Urls        == {"url1", "url2"}
Texts       == {"x1", "x2"}

\* How many rows (users excluded) a run inserts, per specification.
MaxRows         == 3
MaxBookmarkRows == 10
MaxListRows     == 6
\* How many times the popup is opened in a run.
MaxOpens        == 3

\* SQL NULL in a nullable foreign key column.
Null == "null"

\* bookmarks.type enum (schema.ts:123-125) and tagsOnBookmarks.attachedBy
\* (schema.ts:263).
BookmarkTypes == {"link", "text", "asset"}
AttachedBy    == {"ai", "human"}

VARIABLES
    users, accounts, sessions, apiKeys, customPrompts,
    bookmarks, bookmarkLinks, bookmarkTexts, bookmarkAssets, assets,
    bookmarkTags, tagsOnBookmarks, bookmarkLists, bookmarksInLists,
    rssFeedsTable, rssFeedImportsTable,
    \* what the last statement on the database did (a history variable)
    last,
    \* the SavePage popup
    pc, currentTab, status, error, dirty, view, shown, calls, opens

authVars   == <<accounts, sessions, apiKeys, customPrompts>>
extVars    == <<bookmarkLinks, bookmarkTexts, bookmarkAssets>>
tagVars    == <<bookmarkTags, tagsOnBookmarks>>
listVars   == <<bookmarkLists, bookmarksInLists>>
feedVars   == <<rssFeedsTable, rssFeedImportsTable>>
dbVars     == <<users, authVars, bookmarks, extVars, assets, tagVars, listVars, feedVars, last>>
popupVars  == <<pc, currentTab, status, error, dirty, view, shown, calls, opens>>
vars       == <<dbVars, popupVars>>

\* The primary keys present in a table whose key column is "id".
Ids(table) == {r.id : r \in table}

\* The number of rows in the database, the users table excluded.
RowCount ==
    Cardinality(accounts) + Cardinality(sessions) + Cardinality(apiKeys)
  + Cardinality(customPrompts) + Cardinality(bookmarks)
  + Cardinality(bookmarkLinks) + Cardinality(bookmarkTexts)
  + Cardinality(bookmarkAssets) + Cardinality(assets)
  + Cardinality(bookmarkTags) + Cardinality(tagsOnBookmarks)
  + Cardinality(bookmarkLists) + Cardinality(bookmarksInLists)
  + Cardinality(rssFeedsTable) + Cardinality(rssFeedImportsTable)

\* ------------------------------------------------------------- the schema
\* The rows each table can hold: its columns that carry a key, a foreign key,
\* a unique constraint or an enum.
UserRows    == [id : UserIds]
AccountRows == [id : AccountKeys, userId : UserIds]
SessionRows == [id : SessionTokens, userId : UserIds]
ApiKeyRows  == [id : ApiKeyIds, userId : UserIds]
PromptRows  == [id : PromptIds, userId : UserIds]
BookmarkRows == [id : BookmarkIds, userId : UserIds, type : BookmarkTypes]
LinkRows    == [id : BookmarkIds, url : Urls]
TextRows    == [id : BookmarkIds, text : Texts]
BookmarkAssetRows == [id : BookmarkIds, assetId : AssetIds]
AssetRows   == [id : AssetIds, bookmarkId : BookmarkIds \cup {Null}, userId : UserIds]
TagRows     == [id : TagIds, name : TagNames, userId : UserIds]
TagOnBookmarkRows == [bookmarkId : BookmarkIds, tagId : TagIds, attachedBy : AttachedBy]
ListRows    == [id : ListIds, userId : UserIds, parentId : ListIds \cup {Null}]
BookmarkInListRows == [bookmarkId : BookmarkIds, listId : ListIds]
FeedRows    == [id : FeedIds, userId : UserIds]
FeedImportRows == [id : ImportIds, entryId : EntryIds, rssFeedId : FeedIds,
                   bookmarkId : BookmarkIds \cup {Null}]

TypeOK ==
    /\ users \subseteq UserRows
    /\ accounts \subseteq AccountRows
    /\ sessions \subseteq SessionRows
    /\ apiKeys \subseteq ApiKeyRows
    /\ customPrompts \subseteq PromptRows
    /\ bookmarks \subseteq BookmarkRows
    /\ bookmarkLinks \subseteq LinkRows
    /\ bookmarkTexts \subseteq TextRows
    /\ bookmarkAssets \subseteq BookmarkAssetRows
    /\ assets \subseteq AssetRows
    /\ bookmarkTags \subseteq TagRows
    /\ tagsOnBookmarks \subseteq TagOnBookmarkRows
    /\ bookmarkLists \subseteq ListRows
    /\ bookmarksInLists \subseteq BookmarkInListRows
    /\ rssFeedsTable \subseteq FeedRows
    /\ rssFeedImportsTable \subseteq FeedImportRows

\* What the history variable holds after a statement that is not a DELETE on
\* a referenced table.
OtherStatement == [op |-> "other", id |-> "", removed |-> 0, nulled |-> 0]

\* How many rows that are in both tables had parentId (bookmarkId) set to
\* null between before and after.
Nulled(before, after) ==
    Cardinality({r \in after : r.parentId = Null /\
                    \E o \in before : o.id = r.id /\ o.parentId # Null})
NulledBookmark(before, after) ==
    Cardinality({r \in after : r.bookmarkId = Null /\
                    \E o \in before : o.id = r.id /\ o.bookmarkId # Null})

\* ---------------------------------------------------------------- inserts
\* INSERT INTO user.  Primary key: id.
InsertUser(u) ==
    /\ u \notin Ids(users)
    /\ users' = users \cup {[id |-> u]}
    /\ UNCHANGED <<authVars, bookmarks, extVars, assets, tagVars, listVars, feedVars, popupVars>>
    /\ last' = OtherStatement

\* INSERT INTO account.  Primary key (provider, providerAccountId); userId
\* references user.
InsertAccount(k, u) ==
    /\ k \notin Ids(accounts)
    /\ u \in Ids(users)
    /\ accounts' = accounts \cup {[id |-> k, userId |-> u]}
    /\ UNCHANGED <<users, sessions, apiKeys, customPrompts, bookmarks, extVars, assets,
                   tagVars, listVars, feedVars, popupVars>>
    /\ last' = OtherStatement

\* INSERT INTO session.  Primary key sessionToken; userId references user.
InsertSession(k, u) ==
    /\ k \notin Ids(sessions)
    /\ u \in Ids(users)
    /\ sessions' = sessions \cup {[id |-> k, userId |-> u]}
    /\ UNCHANGED <<users, accounts, apiKeys, customPrompts, bookmarks, extVars, assets,
                   tagVars, listVars, feedVars, popupVars>>
    /\ last' = OtherStatement

\* INSERT INTO apiKey.  Primary key id; userId references user.
InsertApiKey(k, u) ==
    /\ k \notin Ids(apiKeys)
    /\ u \in Ids(users)
    /\ apiKeys' = apiKeys \cup {[id |-> k, userId |-> u]}
    /\ UNCHANGED <<users, accounts, sessions, customPrompts, bookmarks, extVars, assets,
                   tagVars, listVars, feedVars, popupVars>>
    /\ last' = OtherStatement

\* INSERT INTO customPrompts.  Primary key id; userId references user.
InsertPrompt(k, u) ==
    /\ k \notin Ids(customPrompts)
    /\ u \in Ids(users)
    /\ customPrompts' = customPrompts \cup {[id |-> k, userId |-> u]}
    /\ UNCHANGED <<users, accounts, sessions, apiKeys, bookmarks, extVars, assets,
                   tagVars, listVars, feedVars, popupVars>>
    /\ last' = OtherStatement

\* INSERT INTO bookmarks.  Primary key id; userId references user; type is
\* one of the enum's values and constrains no other table.
InsertBookmark(b, u, ty) ==
    /\ b \notin Ids(bookmarks)
    /\ u \in Ids(users)
    /\ ty \in BookmarkTypes
    /\ bookmarks' = bookmarks \cup {[id |-> b, userId |-> u, type |-> ty]}
    /\ UNCHANGED <<users, authVars, extVars, assets, tagVars, listVars, feedVars, popupVars>>
    /\ last' = OtherStatement

\* InsertLink as it would be were id not the table's primary key.
InsertLinkNoKey(b, url) ==
    /\ b \in Ids(bookmarks)
    /\ bookmarkLinks' = bookmarkLinks \cup {[id |-> b, url |-> url]}
    /\ UNCHANGED <<users, authVars, bookmarks, bookmarkTexts, bookmarkAssets, assets,
                   tagVars, listVars, feedVars, popupVars>>
    /\ last' = OtherStatement

\* INSERT INTO bookmarkLinks.  id is the primary key and references bookmarks.
InsertLink(b, url) ==
    /\ b \notin Ids(bookmarkLinks)
    /\ b \in Ids(bookmarks)
    /\ bookmarkLinks' = bookmarkLinks \cup {[id |-> b, url |-> url]}
    /\ UNCHANGED <<users, authVars, bookmarks, bookmarkTexts, bookmarkAssets, assets,
                   tagVars, listVars, feedVars, popupVars>>
    /\ last' = OtherStatement

\* INSERT INTO bookmarkTexts.  id is the primary key and references bookmarks.
InsertText(b, txt) ==
    /\ b \notin Ids(bookmarkTexts)
    /\ b \in Ids(bookmarks)
    /\ bookmarkTexts' = bookmarkTexts \cup {[id |-> b, text |-> txt]}
    /\ UNCHANGED <<users, authVars, bookmarks, bookmarkLinks, bookmarkAssets, assets,
                   tagVars, listVars, feedVars, popupVars>>
    /\ last' = OtherStatement

\* INSERT INTO bookmarkAssets.  id is the primary key and references
\* bookmarks; assetId is a plain NOT NULL text column (no foreign key).
InsertBookmarkAsset(b, a) ==
    /\ b \notin Ids(bookmarkAssets)
    /\ b \in Ids(bookmarks)
    /\ bookmarkAssets' = bookmarkAssets \cup {[id |-> b, assetId |-> a]}
    /\ UNCHANGED <<users, authVars, bookmarks, bookmarkLinks, bookmarkTexts, assets,
                   tagVars, listVars, feedVars, popupVars>>
    /\ last' = OtherStatement

\* INSERT INTO assets.  Primary key id (given by the caller); bookmarkId is
\* nullable and references bookmarks; userId references user.
InsertAsset(a, b, u) ==
    /\ a \notin Ids(assets)
    /\ b \in Ids(bookmarks) \cup {Null}
    /\ u \in Ids(users)
    /\ assets' = assets \cup {[id |-> a, bookmarkId |-> b, userId |-> u]}
    /\ UNCHANGED <<users, authVars, bookmarks, extVars, tagVars, listVars, feedVars, popupVars>>
    /\ last' = OtherStatement

\* INSERT INTO bookmarkTags.  Primary key id; userId references user;
\* unique (userId, name).
InsertTag(t, n, u) ==
    /\ t \notin Ids(bookmarkTags)
    /\ u \in Ids(users)
    /\ \A r \in bookmarkTags : ~(r.userId = u /\ r.name = n)
    /\ bookmarkTags' = bookmarkTags \cup {[id |-> t, name |-> n, userId |-> u]}
    /\ UNCHANGED <<users, authVars, bookmarks, extVars, assets, tagsOnBookmarks,
                   listVars, feedVars, popupVars>>
    /\ last' = OtherStatement

\* INSERT INTO tagsOnBookmarks.  Primary key (bookmarkId, tagId), each a
\* foreign key.
InsertTagOnBookmark(b, t, by) ==
    /\ \A r \in tagsOnBookmarks : ~(r.bookmarkId = b /\ r.tagId = t)
    /\ b \in Ids(bookmarks)
    /\ t \in Ids(bookmarkTags)
    /\ tagsOnBookmarks' = tagsOnBookmarks \cup
                            {[bookmarkId |-> b, tagId |-> t, attachedBy |-> by]}
    /\ UNCHANGED <<users, authVars, bookmarks, extVars, assets, bookmarkTags,
                   listVars, feedVars, popupVars>>
    /\ last' = OtherStatement

\* INSERT INTO bookmarkLists.  Primary key id; userId references user;
\* parentId is nullable and references bookmarkLists (the new row included:
\* the key is checked when the statement ends).
InsertList(l, u, p) ==
    /\ l \notin Ids(bookmarkLists)
    /\ u \in Ids(users)
    /\ p \in Ids(bookmarkLists) \cup {l, Null}
    /\ bookmarkLists' = bookmarkLists \cup {[id |-> l, userId |-> u, parentId |-> p]}
    /\ UNCHANGED <<users, authVars, bookmarks, extVars, assets, tagVars,
                   bookmarksInLists, feedVars, popupVars>>
    /\ last' = OtherStatement

\* INSERT INTO bookmarksInLists.  Primary key (bookmarkId, listId), each a
\* foreign key.
InsertBookmarkInList(b, l) ==
    /\ \A r \in bookmarksInLists : ~(r.bookmarkId = b /\ r.listId = l)
    /\ b \in Ids(bookmarks)
    /\ l \in Ids(bookmarkLists)
    /\ bookmarksInLists' = bookmarksInLists \cup {[bookmarkId |-> b, listId |-> l]}
    /\ UNCHANGED <<users, authVars, bookmarks, extVars, assets, tagVars,
                   bookmarkLists, feedVars, popupVars>>
    /\ last' = OtherStatement

\* INSERT INTO rssFeeds.  Primary key id; userId references user.
InsertFeed(f, u) ==
    /\ f \notin Ids(rssFeedsTable)
    /\ u \in Ids(users)
    /\ rssFeedsTable' = rssFeedsTable \cup {[id |-> f, userId |-> u]}
    /\ UNCHANGED <<users, authVars, bookmarks, extVars, assets, tagVars, listVars,
                   rssFeedImportsTable, popupVars>>
    /\ last' = OtherStatement

\* INSERT INTO rssFeedImports.  Primary key id; rssFeedId references
\* rssFeeds; bookmarkId is nullable and references bookmarks;
\* unique (rssFeedId, entryId).
InsertFeedImport(i, e, f, b) ==
    /\ i \notin Ids(rssFeedImportsTable)
    /\ f \in Ids(rssFeedsTable)
    /\ b \in Ids(bookmarks) \cup {Null}
    /\ \A r \in rssFeedImportsTable : ~(r.rssFeedId = f /\ r.entryId = e)
    /\ rssFeedImportsTable' = rssFeedImportsTable \cup
           {[id |-> i, entryId |-> e, rssFeedId |-> f, bookmarkId |-> b]}
    /\ UNCHANGED <<users, authVars, bookmarks, extVars, assets, tagVars, listVars,
                   rssFeedsTable, popupVars>>
    /\ last' = OtherStatement

\* ---------------------------------------------------------------- updates
\* RenameTag as it would be without unique (userId, name).
RenameTagUnchecked(t, n) ==
    /\ \E r \in bookmarkTags :
        /\ r.id = t
        /\ r.name # n
        /\ bookmarkTags' = (bookmarkTags \ {r}) \cup {[r EXCEPT !.name = n]}
    /\ UNCHANGED <<users, authVars, bookmarks, extVars, assets, tagsOnBookmarks,
                   listVars, feedVars, popupVars>>
    /\ last' = OtherStatement

\* UPDATE bookmarkTags SET name.  unique (userId, name) is checked against
\* the other rows.
RenameTag(t, n) ==
    /\ \E r \in bookmarkTags :
        /\ r.id = t
        /\ r.name # n
        /\ \A o \in bookmarkTags : ~(o.id # t /\ o.userId = r.userId /\ o.name = n)
        /\ bookmarkTags' = (bookmarkTags \ {r}) \cup {[r EXCEPT !.name = n]}
    /\ UNCHANGED <<users, authVars, bookmarks, extVars, assets, tagsOnBookmarks,
                   listVars, feedVars, popupVars>>
    /\ last' = OtherStatement

\* Whether list a is x or above x, following at most n parents.
RECURSIVE IsAncestor(_, _, _)
IsAncestor(a, x, n) ==
    /\ x \in Ids(bookmarkLists)
    /\ \/ x = a
       \/ n > 0 /\ IsAncestor(a, (CHOOSE r \in bookmarkLists : r.id = x).parentId, n - 1)

\* SetListParent as it would be with a check that keeps the hierarchy a
\* forest.
SetListParentAcyclic(l, p) ==
    /\ p \in Ids(bookmarkLists) \cup {Null}
    /\ ~IsAncestor(l, p, Cardinality(bookmarkLists))
    /\ \E r \in bookmarkLists :
        /\ r.id = l
        /\ r.parentId # p
        /\ bookmarkLists' = (bookmarkLists \ {r}) \cup {[r EXCEPT !.parentId = p]}
    /\ UNCHANGED <<users, authVars, bookmarks, extVars, assets, tagVars,
                   bookmarksInLists, feedVars, popupVars>>
    /\ last' = OtherStatement

\* UPDATE bookmarkLists SET parentId.  The foreign key is all that is
\* checked: p is null or the id of a row of bookmarkLists.
SetListParent(l, p) ==
    /\ p \in Ids(bookmarkLists) \cup {Null}
    /\ \E r \in bookmarkLists :
        /\ r.id = l
        /\ r.parentId # p
        /\ bookmarkLists' = (bookmarkLists \ {r}) \cup {[r EXCEPT !.parentId = p]}
    /\ UNCHANGED <<users, authVars, bookmarks, extVars, assets, tagVars,
                   bookmarksInLists, feedVars, popupVars>>
    /\ last' = OtherStatement

\* UPDATE assets SET bookmarkId.
SetAssetBookmark(a, b) ==
    /\ b \in Ids(bookmarks) \cup {Null}
    /\ \E r \in assets :
        /\ r.id = a
        /\ r.bookmarkId # b
        /\ assets' = (assets \ {r}) \cup {[r EXCEPT !.bookmarkId = b]}
    /\ UNCHANGED <<users, authVars, bookmarks, extVars, tagVars, listVars, feedVars, popupVars>>
    /\ last' = OtherStatement

\* UPDATE rssFeedImports SET bookmarkId.
SetFeedImportBookmark(i, b) ==
    /\ b \in Ids(bookmarks) \cup {Null}
    /\ \E r \in rssFeedImportsTable :
        /\ r.id = i
        /\ r.bookmarkId # b
        /\ rssFeedImportsTable' = (rssFeedImportsTable \ {r}) \cup {[r EXCEPT !.bookmarkId = b]}
    /\ UNCHANGED <<users, authVars, bookmarks, extVars, assets, tagVars, listVars,
                   rssFeedsTable, popupVars>>
    /\ last' = OtherStatement

\* ------------------------------------------------- the ON DELETE policies
\* Each operator gives a table's rows after the engine has removed the users
\* dU and the rows with keys B (bookmarks), T (tags), L (lists), F (feeds) of
\* the referenced tables.

\* account.userId, session.userId, apiKey.userId, customPrompts.userId:
\* onDelete cascade.
accountsOnDelete(dU) == {r \in accounts : r.userId \notin dU}
sessionsOnDelete(dU) == {r \in sessions : r.userId \notin dU}
apiKeysOnDelete(dU) == {r \in apiKeys : r.userId \notin dU}
customPromptsOnDelete(dU) == {r \in customPrompts : r.userId \notin dU}

\* bookmarks.userId: onDelete cascade.
bookmarksOnDelete(dU) == {r \in bookmarks : r.userId \notin dU}

\* bookmarkLinks.id with no action on delete.
bookmarkLinksNoAction(B) == bookmarkLinks

\* bookmarkLinks.id, bookmarkTexts.id, bookmarkAssets.id: onDelete cascade.
bookmarkLinksOnDelete(B) == {r \in bookmarkLinks : r.id \notin B}
bookmarkTextsOnDelete(B) == {r \in bookmarkTexts : r.id \notin B}
bookmarkAssetsOnDelete(B) == {r \in bookmarkAssets : r.id \notin B}

\* assets.bookmarkId with onDelete set null.
assetsSetNull(dU, B) ==
    {[r EXCEPT !.bookmarkId = IF @ \in B THEN Null ELSE @] :
        r \in {x \in assets : x.userId \notin dU}}

\* assets.bookmarkId and assets.userId: onDelete cascade.
assetsOnDelete(dU, B) == {r \in assets : r.userId \notin dU /\ r.bookmarkId \notin B}

\* bookmarkTags.userId: onDelete cascade.
bookmarkTagsOnDelete(dU) == {r \in bookmarkTags : r.userId \notin dU}

\* tagsOnBookmarks.tagId with no action on delete.
tagsOnBookmarksTagNoAction(B, T) == {r \in tagsOnBookmarks : r.bookmarkId \notin B}

\* tagsOnBookmarks.bookmarkId and tagsOnBookmarks.tagId: onDelete cascade.
tagsOnBookmarksOnDelete(B, T) ==
    {r \in tagsOnBookmarks : r.bookmarkId \notin B /\ r.tagId \notin T}

\* bookmarkLists.userId cascading on to the lists whose parent is removed.
bookmarkListsWithChildren(dU) ==
    {r \in bookmarkLists :
        /\ r.userId \notin dU
        /\ \A o \in bookmarkLists : (o.id = r.parentId) => o.userId \notin dU}

\* bookmarkLists.userId: onDelete cascade.
bookmarkListsOnDelete(dU) == {r \in bookmarkLists : r.userId \notin dU}

\* bookmarkLists.parentId with onDelete cascade.
parentIdCascade(rows, L) == {r \in rows : r.parentId \notin L}

\* bookmarkLists.parentId: onDelete set null, in the rows that remain.
parentIdOnDelete(rows, L) ==
    {[r EXCEPT !.parentId = IF @ \in L THEN Null ELSE @] : r \in rows}

\* bookmarksInLists.bookmarkId and bookmarksInLists.listId: onDelete cascade.
bookmarksInListsOnDelete(B, L) ==
    {r \in bookmarksInLists : r.bookmarkId \notin B /\ r.listId \notin L}

\* rssFeeds.userId: onDelete cascade.
rssFeedsOnDelete(dU) == {r \in rssFeedsTable : r.userId \notin dU}

\* rssFeedImports.bookmarkId with onDelete cascade.
rssFeedImportsCascade(F, B) ==
    {r \in rssFeedImportsTable : r.rssFeedId \notin F /\ r.bookmarkId \notin B}

\* rssFeedImports.rssFeedId: onDelete cascade; rssFeedImports.bookmarkId:
\* onDelete set null.
rssFeedImportsOnDelete(F, B) ==
    {[r EXCEPT !.bookmarkId = IF @ \in B THEN Null ELSE @] :
        r \in {x \in rssFeedImportsTable : x.rssFeedId \notin F}}

\* ---------------------------------------------------------------- deletes
\* One DELETE statement on a referenced table: the users dU and the rows with
\* keys dB, dT, dL, dF go, and every foreign key that references a removed
\* row applies its policy, transitively.
DeleteRows(op, id, dU, dB, dT, dL, dF) ==
    LET bLeft == {r \in bookmarksOnDelete(dU) : r.id \notin dB}
        tLeft == {r \in bookmarkTagsOnDelete(dU) : r.id \notin dT}
        lLeft == {r \in bookmarkListsOnDelete(dU) : r.id \notin dL}
        fLeft == {r \in rssFeedsOnDelete(dU) : r.id \notin dF}
        B == Ids(bookmarks) \ Ids(bLeft)
        T == Ids(bookmarkTags) \ Ids(tLeft)
        L == Ids(bookmarkLists) \ Ids(lLeft)
        F == Ids(rssFeedsTable) \ Ids(fLeft)
    IN  /\ users' = {r \in users : r.id \notin dU}
        /\ accounts' = accountsOnDelete(dU)
        /\ sessions' = sessionsOnDelete(dU)
        /\ apiKeys' = apiKeysOnDelete(dU)
        /\ customPrompts' = customPromptsOnDelete(dU)
        /\ bookmarks' = bLeft
        /\ bookmarkLinks' = bookmarkLinksOnDelete(B)
        /\ bookmarkTexts' = bookmarkTextsOnDelete(B)
        /\ bookmarkAssets' = bookmarkAssetsOnDelete(B)
        /\ assets' = assetsOnDelete(dU, B)
        /\ bookmarkTags' = tLeft
        /\ tagsOnBookmarks' = tagsOnBookmarksOnDelete(B, T)
        /\ bookmarkLists' = parentIdOnDelete(lLeft, L)
        /\ bookmarksInLists' = bookmarksInListsOnDelete(B, L)
        /\ rssFeedsTable' = fLeft
        /\ rssFeedImportsTable' = rssFeedImportsOnDelete(F, B)
        /\ last' = [op |-> op, id |-> id,
                     removed |-> RowCount - RowCount',
                     nulled |-> Nulled(bookmarkLists, bookmarkLists')
                              + NulledBookmark(rssFeedImportsTable, rssFeedImportsTable')]
        /\ UNCHANGED popupVars

\* DELETE FROM user / bookmarks / bookmarkTags / bookmarkLists / rssFeeds
\* WHERE id = ...
DeleteUser(u) == u \in Ids(users) /\ DeleteRows("DeleteUser", u, {u}, {}, {}, {}, {})
DeleteBookmark(b) == b \in Ids(bookmarks) /\ DeleteRows("DeleteBookmark", b, {}, {b}, {}, {}, {})
DeleteTag(t) == t \in Ids(bookmarkTags) /\ DeleteRows("DeleteTag", t, {}, {}, {t}, {}, {})
DeleteList(l) == l \in Ids(bookmarkLists) /\ DeleteRows("DeleteList", l, {}, {}, {}, {l}, {})
DeleteFeed(f) == f \in Ids(rssFeedsTable) /\ DeleteRows("DeleteFeed", f, {}, {}, {}, {}, {f})

\* DELETE of a row no foreign key references: only that row goes.
DeleteAccount(k) ==
    /\ k \in Ids(accounts)
    /\ accounts' = {r \in accounts : r.id # k}
    /\ UNCHANGED <<users, sessions, apiKeys, customPrompts, bookmarks, extVars, assets,
                   tagVars, listVars, feedVars, popupVars>>
    /\ last' = OtherStatement

DeleteSession(k) ==
    /\ k \in Ids(sessions)
    /\ sessions' = {r \in sessions : r.id # k}
    /\ UNCHANGED <<users, accounts, apiKeys, customPrompts, bookmarks, extVars, assets,
                   tagVars, listVars, feedVars, popupVars>>
    /\ last' = OtherStatement

DeleteApiKey(k) ==
    /\ k \in Ids(apiKeys)
    /\ apiKeys' = {r \in apiKeys : r.id # k}
    /\ UNCHANGED <<users, accounts, sessions, customPrompts, bookmarks, extVars, assets,
                   tagVars, listVars, feedVars, popupVars>>
    /\ last' = OtherStatement

DeletePrompt(k) ==
    /\ k \in Ids(customPrompts)
    /\ customPrompts' = {r \in customPrompts : r.id # k}
    /\ UNCHANGED <<users, accounts, sessions, apiKeys, bookmarks, extVars, assets,
                   tagVars, listVars, feedVars, popupVars>>
    /\ last' = OtherStatement

DeleteLink(b) ==
    /\ b \in Ids(bookmarkLinks)
    /\ bookmarkLinks' = {r \in bookmarkLinks : r.id # b}
    /\ UNCHANGED <<users, authVars, bookmarks, bookmarkTexts, bookmarkAssets, assets,
                   tagVars, listVars, feedVars, popupVars>>
    /\ last' = OtherStatement

DeleteText(b) ==
    /\ b \in Ids(bookmarkTexts)
    /\ bookmarkTexts' = {r \in bookmarkTexts : r.id # b}
    /\ UNCHANGED <<users, authVars, bookmarks, bookmarkLinks, bookmarkAssets, assets,
                   tagVars, listVars, feedVars, popupVars>>
    /\ last' = OtherStatement

DeleteBookmarkAsset(b) ==
    /\ b \in Ids(bookmarkAssets)
    /\ bookmarkAssets' = {r \in bookmarkAssets : r.id # b}
    /\ UNCHANGED <<users, authVars, bookmarks, bookmarkLinks, bookmarkTexts, assets,
                   tagVars, listVars, feedVars, popupVars>>
    /\ last' = OtherStatement

DeleteAsset(a) ==
    /\ a \in Ids(assets)
    /\ assets' = {r \in assets : r.id # a}
    /\ UNCHANGED <<users, authVars, bookmarks, extVars, tagVars, listVars, feedVars, popupVars>>
    /\ last' = OtherStatement

DeleteTagOnBookmark(b, t) ==
    /\ \E r \in tagsOnBookmarks : r.bookmarkId = b /\ r.tagId = t
    /\ tagsOnBookmarks' = {r \in tagsOnBookmarks : ~(r.bookmarkId = b /\ r.tagId = t)}
    /\ UNCHANGED <<users, authVars, bookmarks, extVars, assets, bookmarkTags,
                   listVars, feedVars, popupVars>>
    /\ last' = OtherStatement

DeleteBookmarkInList(b, l) ==
    /\ [bookmarkId |-> b, listId |-> l] \in bookmarksInLists
    /\ bookmarksInLists' = bookmarksInLists \ {[bookmarkId |-> b, listId |-> l]}
    /\ UNCHANGED <<users, authVars, bookmarks, extVars, assets, tagVars,
                   bookmarkLists, feedVars, popupVars>>
    /\ last' = OtherStatement

DeleteFeedImport(i) ==
    /\ i \in Ids(rssFeedImportsTable)
    /\ rssFeedImportsTable' = {r \in rssFeedImportsTable : r.id # i}
    /\ UNCHANGED <<users, authVars, bookmarks, extVars, assets, tagVars, listVars,
                   rssFeedsTable, popupVars>>
    /\ last' = OtherStatement

\* ------------------------------------------------------- the SavePage popup
\* useState<string | undefined>(undefined)
Undefined == "undefined"
\* What chrome.tabs.query can resolve to: an array with no tab, or with a tab
\* whose url is missing, empty or a URL.  const [currentTab] takes its first
\* element.
TabUrls   == Urls \cup {Undefined, ""}
QueryResults == {<<>>} \cup {<<t>> : t \in [url : TabUrls]}
\* e.message of a failed mutation.
Messages  == {"m1", "m2"}
NoUrlError == "Couldn't find the URL of the current tab"
MutationErrors == {"Something went wrong: " \o m : m \in Messages}

\* currentTab?.url as a condition: false for a missing tab and for an
\* undefined or empty url.
HasUrl(tabs) == Len(tabs) > 0 /\ tabs[1].url \notin {Undefined, ""}

\* switch (status): what one render returns.
RenderView(st) ==
    CASE st = "error"   -> "error"
      [] st = "success" -> "saved"
      [] st = "pending" -> "spinner"
      [] st = "idle"    -> "spinner"

\* The popup opens: a new component instance, error undefined, the mutation
\* idle, its first render due.
Open ==
    /\ pc = "closed"
    /\ opens < MaxOpens
    /\ opens' = opens + 1
    /\ pc' = "mounted"
    /\ currentTab' = <<>>
    /\ status' = "idle"
    /\ error' = Undefined
    /\ dirty' = TRUE
    /\ view' = "none"
    /\ shown' = Undefined
    /\ calls' = <<>>
    /\ UNCHANGED dbVars

\* React renders the component: the switch on status, and in the error case
\* the text of the error state.
Render ==
    /\ pc # "closed"
    /\ dirty
    /\ dirty' = FALSE
    /\ view' = RenderView(status)
    /\ shown' = IF status = "error" THEN error ELSE Undefined
    /\ UNCHANGED <<pc, currentTab, status, error, calls, opens, dbVars>>

\* useEffect after the first render: runSave() starts and awaits
\* chrome.tabs.query.
RunSave ==
    /\ pc = "mounted"
    /\ ~dirty
    /\ pc' = "querying"
    /\ UNCHANGED <<currentTab, status, error, dirty, view, shown, calls, opens, dbVars>>

\* chrome.tabs.query resolves with tabs and runSave runs to its end: with a
\* url it calls createBookmark, which puts the mutation in flight; without
\* one it sets the error state and returns.
QueryResolved(tabs) ==
    /\ pc = "querying"
    /\ pc' = "done"
    /\ currentTab' = tabs
    /\ dirty' = TRUE
    /\ IF HasUrl(tabs)
       THEN /\ calls' = Append(calls, [type |-> "link", url |-> tabs[1].url])
            /\ status' = "pending"
            /\ error' = error
       ELSE /\ error' = NoUrlError
            /\ UNCHANGED <<calls, status>>
    /\ UNCHANGED <<view, shown, opens, dbVars>>

\* The mutation succeeds.
MutationSuccess ==
    /\ pc = "done"
    /\ status = "pending"
    /\ status' = "success"
    /\ dirty' = TRUE
    /\ UNCHANGED <<pc, currentTab, error, view, shown, calls, opens, dbVars>>

\* The mutation fails with message m: status error, and onError sets the
\* error state.
MutationError(m) ==
    /\ pc = "done"
    /\ status = "pending"
    /\ status' = "error"
    /\ error' = "Something went wrong: " \o m
    /\ dirty' = TRUE
    /\ UNCHANGED <<pc, currentTab, view, shown, calls, opens, dbVars>>

\* The popup is closed: the component instance is gone.
Close ==
    /\ pc # "closed"
    /\ pc' = "closed"
    /\ view' = "none"
    /\ shown' = Undefined
    /\ dirty' = FALSE
    /\ UNCHANGED <<currentTab, status, error, calls, opens, dbVars>>

\* ---------------------------------------------------------- specifications
Init ==
    /\ users = {}
    /\ accounts = {} /\ sessions = {} /\ apiKeys = {} /\ customPrompts = {}
    /\ bookmarks = {}
    /\ bookmarkLinks = {} /\ bookmarkTexts = {} /\ bookmarkAssets = {}
    /\ assets = {}
    /\ bookmarkTags = {} /\ tagsOnBookmarks = {}
    /\ bookmarkLists = {} /\ bookmarksInLists = {}
    /\ rssFeedsTable = {} /\ rssFeedImportsTable = {}
    /\ last = OtherStatement
    /\ pc = "closed"
    /\ currentTab = <<>>
    /\ status = "idle"
    /\ error = Undefined
    /\ dirty = FALSE
    /\ view = "none"
    /\ shown = Undefined
    /\ calls = <<>>
    /\ opens = 0

AnyInsertUser == \E u \in UserIds : InsertUser(u)
AnyInsertAccount == \E k \in AccountKeys, u \in UserIds : InsertAccount(k, u)
AnyInsertSession == \E k \in SessionTokens, u \in UserIds : InsertSession(k, u)
AnyInsertApiKey == \E k \in ApiKeyIds, u \in UserIds : InsertApiKey(k, u)
AnyInsertPrompt == \E k \in PromptIds, u \in UserIds : InsertPrompt(k, u)
AnyInsertBookmark ==
    \E b \in BookmarkIds, u \in UserIds, ty \in BookmarkTypes : InsertBookmark(b, u, ty)
AnyInsertLink == \E b \in BookmarkIds, url \in Urls : InsertLink(b, url)
AnyInsertText == \E b \in BookmarkIds, txt \in Texts : InsertText(b, txt)
AnyInsertBookmarkAsset == \E b \in BookmarkIds, a \in AssetIds : InsertBookmarkAsset(b, a)
AnyInsertAsset ==
    \E a \in AssetIds, b \in BookmarkIds \cup {Null}, u \in UserIds : InsertAsset(a, b, u)
AnyInsertTag == \E t \in TagIds, n \in TagNames, u \in UserIds : InsertTag(t, n, u)
AnyInsertTagOnBookmark ==
    \E b \in BookmarkIds, t \in TagIds, by \in AttachedBy : InsertTagOnBookmark(b, t, by)
AnyInsertList ==
    \E l \in ListIds, u \in UserIds, p \in ListIds \cup {Null} : InsertList(l, u, p)
AnyInsertBookmarkInList == \E b \in BookmarkIds, l \in ListIds : InsertBookmarkInList(b, l)
AnyInsertFeed == \E f \in FeedIds, u \in UserIds : InsertFeed(f, u)
AnyInsertFeedImport ==
    \E i \in ImportIds, e \in EntryIds, f \in FeedIds, b \in BookmarkIds \cup {Null} :
        InsertFeedImport(i, e, f, b)

AnyRenameTag == \E t \in TagIds, n \in TagNames : RenameTag(t, n)
AnySetListParent == \E l \in ListIds, p \in ListIds \cup {Null} : SetListParent(l, p)
AnySetAssetBookmark == \E a \in AssetIds, b \in BookmarkIds \cup {Null} : SetAssetBookmark(a, b)
AnySetFeedImportBookmark ==
    \E i \in ImportIds, b \in BookmarkIds \cup {Null} : SetFeedImportBookmark(i, b)

AnyDeleteUser == \E u \in UserIds : DeleteUser(u)
AnyDeleteBookmark == \E b \in BookmarkIds : DeleteBookmark(b)
AnyDeleteTag == \E t \in TagIds : DeleteTag(t)
AnyDeleteList == \E l \in ListIds : DeleteList(l)
AnyDeleteFeed == \E f \in FeedIds : DeleteFeed(f)
AnyDeleteAccount == \E k \in AccountKeys : DeleteAccount(k)
AnyDeleteSession == \E k \in SessionTokens : DeleteSession(k)
AnyDeleteApiKey == \E k \in ApiKeyIds : DeleteApiKey(k)
AnyDeletePrompt == \E k \in PromptIds : DeletePrompt(k)
AnyDeleteLink == \E b \in BookmarkIds : DeleteLink(b)
AnyDeleteText == \E b \in BookmarkIds : DeleteText(b)
AnyDeleteBookmarkAsset == \E b \in BookmarkIds : DeleteBookmarkAsset(b)
AnyDeleteAsset == \E a \in AssetIds : DeleteAsset(a)
AnyDeleteTagOnBookmark == \E b \in BookmarkIds, t \in TagIds : DeleteTagOnBookmark(b, t)
AnyDeleteBookmarkInList == \E b \in BookmarkIds, l \in ListIds : DeleteBookmarkInList(b, l)
AnyDeleteFeedImport == \E i \in ImportIds : DeleteFeedImport(i)

\* Whether a run that inserts at most max rows may insert one more.
Room(max) == RowCount < max

\* The whole schema, a few rows at a time.
Next ==
    \/ AnyInsertUser
    \/ Room(MaxRows) /\ AnyInsertAccount
    \/ Room(MaxRows) /\ AnyInsertSession
    \/ Room(MaxRows) /\ AnyInsertApiKey
    \/ Room(MaxRows) /\ AnyInsertPrompt
    \/ Room(MaxRows) /\ AnyInsertBookmark
    \/ Room(MaxRows) /\ AnyInsertLink
    \/ Room(MaxRows) /\ AnyInsertText
    \/ Room(MaxRows) /\ AnyInsertBookmarkAsset
    \/ Room(MaxRows) /\ AnyInsertAsset
    \/ Room(MaxRows) /\ AnyInsertTag
    \/ Room(MaxRows) /\ AnyInsertTagOnBookmark
    \/ Room(MaxRows) /\ AnyInsertList
    \/ Room(MaxRows) /\ AnyInsertBookmarkInList
    \/ Room(MaxRows) /\ AnyInsertFeed
    \/ Room(MaxRows) /\ AnyInsertFeedImport
    \/ AnyRenameTag \/ AnySetListParent \/ AnySetAssetBookmark \/ AnySetFeedImportBookmark
    \/ AnyDeleteUser \/ AnyDeleteBookmark \/ AnyDeleteTag \/ AnyDeleteList \/ AnyDeleteFeed
    \/ AnyDeleteAccount \/ AnyDeleteSession \/ AnyDeleteApiKey \/ AnyDeletePrompt
    \/ AnyDeleteLink \/ AnyDeleteText \/ AnyDeleteBookmarkAsset \/ AnyDeleteAsset
    \/ AnyDeleteTagOnBookmark \/ AnyDeleteBookmarkInList \/ AnyDeleteFeedImport

Spec == Init /\ [][Next]_vars

\* The popup alone.
NextSavePage ==
    \/ Open
    \/ Render
    \/ RunSave
    \/ \E tabs \in QueryResults : QueryResolved(tabs)
    \/ MutationSuccess
    \/ \E m \in Messages : MutationError(m)
    \/ Close

SpecSavePage == Init /\ [][NextSavePage]_vars

\* One user's bookmarks with everything that can hang off a bookmark: the
\* extension rows, assets, a tag and a list with their join rows.
NextBookmarks ==
    \/ InsertUser("u1")
    \/ Room(MaxBookmarkRows) /\ \E b \in BookmarkIds : InsertBookmark(b, "u1", "link")
    \/ Room(MaxBookmarkRows) /\ \E b \in BookmarkIds : InsertLink(b, "url1")
    \/ Room(MaxBookmarkRows) /\ \E b \in BookmarkIds : InsertText(b, "x1")
    \/ Room(MaxBookmarkRows) /\ \E b \in BookmarkIds : InsertBookmarkAsset(b, "a1")
    \/ Room(MaxBookmarkRows) /\ \E a \in AssetIds, b \in BookmarkIds \cup {Null} :
                                    InsertAsset(a, b, "u1")
    \/ Room(MaxBookmarkRows) /\ InsertTag("t1", "n1", "u1")
    \/ Room(MaxBookmarkRows) /\ \E b \in BookmarkIds : InsertTagOnBookmark(b, "t1", "human")
    \/ Room(MaxBookmarkRows) /\ InsertList("l1", "u1", Null)
    \/ Room(MaxBookmarkRows) /\ \E b \in BookmarkIds : InsertBookmarkInList(b, "l1")
    \/ AnySetAssetBookmark
    \/ AnyDeleteBookmark \/ AnyDeleteTag \/ AnyDeleteList
    \/ AnyDeleteLink \/ AnyDeleteText \/ AnyDeleteBookmarkAsset \/ AnyDeleteAsset
    \/ AnyDeleteTagOnBookmark \/ AnyDeleteBookmarkInList

SpecBookmarks == Init /\ [][NextBookmarks]_vars

\* The list hierarchy: lists of two users, their parents, and bookmarks in
\* them.
NextLists ==
    \/ AnyInsertUser
    \/ Room(MaxListRows) /\ \E b \in BookmarkIds : InsertBookmark(b, "u1", "link")
    \/ Room(MaxListRows) /\ AnyInsertList
    \/ Room(MaxListRows) /\ AnyInsertBookmarkInList
    \/ AnySetListParent
    \/ AnyDeleteUser \/ AnyDeleteBookmark \/ AnyDeleteList \/ AnyDeleteBookmarkInList

SpecLists == Init /\ [][NextLists]_vars

\* ------------------------------------------------------------------ claims
\* The keys of the rows user u owns in the referenced tables.
BookmarksOf(u) == {r.id : r \in {x \in bookmarks : x.userId = u}}
TagsOf(u)      == {r.id : r \in {x \in bookmarkTags : x.userId = u}}
ListsOf(u)     == {r.id : r \in {x \in bookmarkLists : x.userId = u}}
FeedsOf(u)     == {r.id : r \in {x \in rssFeedsTable : x.userId = u}}

\* No table holds a row of user u, nor a row that hangs off the bookmarks B,
\* tags T, lists L or feeds F.
NothingLeft(u, B, T, L, F) ==
    /\ u \notin Ids(users)
    /\ \A r \in accounts : r.userId # u
    /\ \A r \in sessions : r.userId # u
    /\ \A r \in apiKeys : r.userId # u
    /\ \A r \in bookmarks : r.userId # u
    /\ \A r \in assets : r.userId # u
    /\ \A r \in bookmarkTags : r.userId # u
    /\ \A r \in bookmarkLists : r.userId # u
    /\ \A r \in customPrompts : r.userId # u
    /\ \A r \in rssFeedsTable : r.userId # u
    /\ \A r \in bookmarkLinks : r.id \notin B
    /\ \A r \in bookmarkTexts : r.id \notin B
    /\ \A r \in bookmarkAssets : r.id \notin B
    /\ \A r \in tagsOnBookmarks : r.bookmarkId \notin B /\ r.tagId \notin T
    /\ \A r \in bookmarksInLists : r.bookmarkId \notin B /\ r.listId \notin L
    /\ \A r \in rssFeedImportsTable : r.rssFeedId \notin F

\* C1: deleting a user removes every row the user owns, directly and
\* transitively: right after DELETE of user u no account, session, apiKey,
\* bookmark, asset, tag, list, customPrompt or rssFeed row has userId = u, and
\* no extension row, tagsOnBookmarks row, bookmarksInLists row or
\* rssFeedImports row that hung off u's bookmarks, tags, lists or feeds is left.
C1_UserDeleteCascades ==
    [][\A u \in UserIds : DeleteUser(u) =>
         \A B \in {BookmarksOf(u)}, T \in {TagsOf(u)}, L \in {ListsOf(u)}, F \in {FeedsOf(u)} :
            NothingLeft(u, B, T, L, F)']_vars

\* A user was just deleted, and three or more rows went with it.
C1_Witness == last.op = "DeleteUser" /\ last.removed >= 3

\* C2, as stated: for every bookmark id b at most one of bookmarkLinks,
\* bookmarkTexts, bookmarkAssets holds a row with id = b.
C2_AtMostOneSubRecord ==
    \A b \in BookmarkIds :
        /\ ~(b \in Ids(bookmarkLinks) /\ b \in Ids(bookmarkTexts))
        /\ ~(b \in Ids(bookmarkLinks) /\ b \in Ids(bookmarkAssets))
        /\ ~(b \in Ids(bookmarkTexts) /\ b \in Ids(bookmarkAssets))

\* C2, amended: for every bookmark id b each of the three extension tables
\* holds at most one row with id = b (its primary key), so a bookmark has at
\* most one link, one text and one asset sub-record.
C2_AtMostOnePerTable ==
    \A b \in BookmarkIds :
        /\ Cardinality({r \in bookmarkLinks : r.id = b}) <= 1
        /\ Cardinality({r \in bookmarkTexts : r.id = b}) <= 1
        /\ Cardinality({r \in bookmarkAssets : r.id = b}) <= 1

\* A bookmark with a sub-record in two extension tables, and no room for a
\* second row in either.
C2_Witness ==
    \E b \in Ids(bookmarks) :
        /\ b \in Ids(bookmarkLinks) /\ b \in Ids(bookmarkTexts)
        /\ \A url \in Urls : ~ENABLED InsertLink(b, url)
        /\ \A txt \in Texts : ~ENABLED InsertText(b, txt)

\* C3: deleting bookmark b deletes its extension rows, every tagsOnBookmarks
\* and bookmarksInLists row with bookmarkId = b and every assets row with
\* bookmarkId = b; assets with a null bookmarkId, and the tags and the lists,
\* stay as they were.
C3_BookmarkDeleteCascades ==
    [][\A b \in BookmarkIds : DeleteBookmark(b) =>
         /\ b \notin Ids(bookmarks')
         /\ b \notin Ids(bookmarkLinks')
         /\ b \notin Ids(bookmarkTexts')
         /\ b \notin Ids(bookmarkAssets')
         /\ \A r \in tagsOnBookmarks' : r.bookmarkId # b
         /\ \A r \in bookmarksInLists' : r.bookmarkId # b
         /\ \A r \in assets : r.bookmarkId = b => r.id \notin Ids(assets')
         /\ \A r \in assets : r.bookmarkId = Null => r \in assets'
         /\ bookmarkTags' = bookmarkTags
         /\ bookmarkLists' = bookmarkLists]_vars

\* A bookmark was just deleted together with its three extension rows, a tag
\* attachment, a list membership and an asset, while an asset without a
\* bookmark, the tag and the list are still there.
C3_Witness ==
    /\ last.op = "DeleteBookmark"
    /\ last.removed >= 7
    /\ \E r \in assets : r.bookmarkId = Null
    /\ bookmarkTags # {}
    /\ bookmarkLists # {}

\* C4: tag names are unique per user: no two bookmarkTags rows share
\* (userId, name); an insert or a rename that would create such a pair is
\* rejected; a user who holds no tag of that name may insert one although
\* another user holds it.
C4_TagNamesUniquePerUser ==
    /\ \A r1, r2 \in bookmarkTags :
          (r1.userId = r2.userId /\ r1.name = r2.name) => r1 = r2
    /\ \A r \in bookmarkTags : \A t \in TagIds : ~ENABLED InsertTag(t, r.name, r.userId)
    /\ \A r, o \in bookmarkTags :
          (o.id # r.id /\ o.userId = r.userId) => ~ENABLED RenameTag(o.id, r.name)
    /\ \A r \in bookmarkTags : \A u \in Ids(users), t \in TagIds \ Ids(bookmarkTags) :
          (\A o \in bookmarkTags : ~(o.userId = u /\ o.name = r.name))
              => ENABLED InsertTag(t, r.name, u)

\* Two users each hold a tag of the same name.
C4_Witness ==
    \E r1, r2 \in bookmarkTags : r1.userId # r2.userId /\ r1.name = r2.name

\* No other id may import the entry of row r again.
ImportRejected(r) ==
    \A i \in ImportIds, b \in BookmarkIds \cup {Null} :
        ~ENABLED InsertFeedImport(i, r.entryId, r.rssFeedId, b)

\* C5: feed imports dedupe by (feed, entry id) across bookmark deletions: no
\* two rssFeedImports rows share (rssFeedId, entryId), an import of an entry a
\* row already holds is rejected, and deleting a bookmark keeps every import
\* row, with bookmarkId set to null in the rows that linked to it.
C5_ImportsDedupeAcrossBookmarkDeletes ==
    /\ [](/\ \A r1, r2 \in rssFeedImportsTable :
               (r1.rssFeedId = r2.rssFeedId /\ r1.entryId = r2.entryId) => r1 = r2
          /\ \A r \in rssFeedImportsTable : ImportRejected(r))
    /\ [][\A b \in BookmarkIds : DeleteBookmark(b) =>
            rssFeedImportsTable' =
                {[r EXCEPT !.bookmarkId = IF @ = b THEN Null ELSE @] :
                    r \in rssFeedImportsTable}]_vars

\* A bookmark was just deleted, the import row that linked to it is still
\* there with a null bookmarkId, and its entry cannot be imported again.
C5_Witness ==
    /\ last.op = "DeleteBookmark"
    /\ last.nulled >= 1
    /\ \E r \in rssFeedImportsTable : r.bookmarkId = Null /\ ImportRejected(r)
    /\ ImportIds \ Ids(rssFeedImportsTable) # {}

\* C6: deleting list l deletes no child list: the other lists stay, those
\* whose parent was l with parentId null; of bookmarksInLists only the rows
\* with listId = l go; no bookmark is deleted.
C6_ListDeleteKeepsChildren ==
    [][\A l \in ListIds : DeleteList(l) =>
         /\ bookmarkLists' =
               {[r EXCEPT !.parentId = IF @ = l THEN Null ELSE @] :
                   r \in {x \in bookmarkLists : x.id # l}}
         /\ bookmarksInLists' = {r \in bookmarksInLists : r.listId # l}
         /\ bookmarks' = bookmarks]_vars

\* A list with two children and a bookmark was just deleted: both children
\* are there with a null parentId, one of them still holding a bookmark.
C6_Witness ==
    /\ last.op = "DeleteList"
    /\ last.nulled >= 2
    /\ last.removed >= 2
    /\ \E r \in bookmarkLists :
          r.parentId = Null /\ \E m \in bookmarksInLists : m.listId = r.id

\* C7: the list hierarchy has no cycle prevention: parentId is null or the
\* id of an existing list, and an update of parentId to null or to the id of
\* any existing list (the list itself and its descendants included) is
\* accepted, an update to any other id rejected.
C7_NoCyclePrevention ==
    /\ \A r \in bookmarkLists : r.parentId \in Ids(bookmarkLists) \cup {Null}
    /\ \A r \in bookmarkLists :
          \A p \in (Ids(bookmarkLists) \cup {Null}) \ {r.parentId} :
              ENABLED SetListParent(r.id, p)
    /\ \A r \in bookmarkLists : \A p \in ListIds \ Ids(bookmarkLists) :
          ~ENABLED SetListParent(r.id, p)

\* One list is its own parent and two others are each other's parent.
C7_Witness ==
    /\ \E r \in bookmarkLists : r.parentId = r.id
    /\ \E a, b \in bookmarkLists : a.id # b.id /\ a.parentId = b.id /\ b.parentId = a.id

\* C8: referential integrity: every non-null foreign key equals the primary
\* key of a row of the table it references.
C8_ReferentialIntegrity ==
    /\ \A r \in accounts : r.userId \in Ids(users)
    /\ \A r \in sessions : r.userId \in Ids(users)
    /\ \A r \in apiKeys : r.userId \in Ids(users)
    /\ \A r \in customPrompts : r.userId \in Ids(users)
    /\ \A r \in bookmarks : r.userId \in Ids(users)
    /\ \A r \in bookmarkLinks : r.id \in Ids(bookmarks)
    /\ \A r \in bookmarkTexts : r.id \in Ids(bookmarks)
    /\ \A r \in bookmarkAssets : r.id \in Ids(bookmarks)
    /\ \A r \in assets :
          r.userId \in Ids(users) /\ r.bookmarkId \in Ids(bookmarks) \cup {Null}
    /\ \A r \in bookmarkTags : r.userId \in Ids(users)
    /\ \A r \in tagsOnBookmarks :
          r.bookmarkId \in Ids(bookmarks) /\ r.tagId \in Ids(bookmarkTags)
    /\ \A r \in bookmarkLists :
          r.userId \in Ids(users) /\ r.parentId \in Ids(bookmarkLists) \cup {Null}
    /\ \A r \in bookmarksInLists :
          r.bookmarkId \in Ids(bookmarks) /\ r.listId \in Ids(bookmarkLists)
    /\ \A r \in rssFeedsTable : r.userId \in Ids(users)
    /\ \A r \in rssFeedImportsTable :
          r.rssFeedId \in Ids(rssFeedsTable) /\ r.bookmarkId \in Ids(bookmarks) \cup {Null}

\* A bookmark has just been deleted with a row that referenced it, and
\* another bookmark, which references its user, is still in place.
C8_Witness ==
    /\ last.op = "DeleteBookmark"
    /\ last.removed >= 2
    /\ bookmarks # {}

\* What user v owns: v's bookmarks, tags, lists, assets, feeds, the imports
\* of v's feeds, and the join rows on v's bookmarks.
OwnedBy(v) ==
    [bookmarks |-> {r \in bookmarks : r.userId = v},
     tags      |-> {r \in bookmarkTags : r.userId = v},
     lists     |-> {r \in bookmarkLists : r.userId = v},
     assets    |-> {r \in assets : r.userId = v},
     feeds     |-> {r \in rssFeedsTable : r.userId = v},
     imports   |-> {r \in rssFeedImportsTable : r.rssFeedId \in FeedsOf(v)},
     tagsOn    |-> {r \in tagsOnBookmarks : r.bookmarkId \in BookmarksOf(v)},
     inLists   |-> {r \in bookmarksInLists : r.bookmarkId \in BookmarksOf(v)}]

\* C9, as stated: deleting user u leaves everything another user v owns
\* unchanged.
C9_UserDeleteConfined ==
    [][\A u \in UserIds : DeleteUser(u) =>
         \A v \in UserIds \ {u} : OwnedBy(v)' = OwnedBy(v)]_vars

\* C9, amended: deleting user u leaves v's bookmarks, tags and feeds
\* unchanged and deletes no list and no feed import of v; of what v owns only
\* the rows that reference a row of u change: a list whose parent is u's list
\* and an import whose bookmark is u's get that key set to null, an asset
\* linked to u's bookmark is deleted, and a join row on v's bookmark is
\* deleted when its tag or list is u's.
C9_UserDeleteConfinedButForReferences ==
    [][\A u \in UserIds : DeleteUser(u) =>
         \A v \in UserIds \ {u} :
           \A B \in {BookmarksOf(u)}, T \in {TagsOf(u)}, L \in {ListsOf(u)}, own \in {OwnedBy(v)} :
             /\ OwnedBy(v)'.bookmarks = own.bookmarks
             /\ OwnedBy(v)'.tags = own.tags
             /\ OwnedBy(v)'.feeds = own.feeds
             /\ OwnedBy(v)'.lists =
                   {[r EXCEPT !.parentId = IF @ \in L THEN Null ELSE @] : r \in own.lists}
             /\ OwnedBy(v)'.imports =
                   {[r EXCEPT !.bookmarkId = IF @ \in B THEN Null ELSE @] : r \in own.imports}
             /\ OwnedBy(v)'.assets = {r \in own.assets : r.bookmarkId \notin B}
             /\ OwnedBy(v)'.tagsOn = {r \in own.tagsOn : r.tagId \notin T}
             /\ OwnedBy(v)'.inLists = {r \in own.inLists : r.listId \notin L}]_vars

\* A user was just deleted and a list of another user, whose parent was a
\* list of the deleted user, is there with a null parentId.
C9_Witness ==
    /\ last.op = "DeleteUser"
    /\ last.nulled >= 1
    /\ \E r \in bookmarkLists : r.parentId = Null

\* C10, as stated: createBookmark is invoked only with the url of the active
\* tab and never when the tab has no url; once an error message is set and no
\* render is due, the popup shows the error view; "Bookmark Saved" is shown
\* only when the mutation's status is success.
C10_SavePageShowsItsErrors ==
    /\ \A i \in 1..Len(calls) :
          HasUrl(currentTab) /\ calls[i] = [type |-> "link", url |-> currentTab[1].url]
    /\ (pc = "done" /\ ~dirty /\ error # Undefined) => view = "error"
    /\ view = "saved" => status = "success"

====
